---- MODULE Spec2Model ----
(***************************************************************************)
(* Model of quantum_solver_suite/static/app.js: the client of the Quantum  *)
(* Solver Suite.  The page is a state machine whose state is the DOM the   *)
(* script touches (number fields, their validation classes and warning     *)
(* elements, the submit button, the example button, the results area, the  *)
(* notifications) and the callbacks that are still pending (timeouts,      *)
(* example requests).  Every jQuery handler is one action.                 *)
(*                                                                         *)
(* JavaScript numbers are records [t, v]: t = "num" with integer v,        *)
(* t = "nan" for NaN, t = "undef" for undefined, t = "null" for null.      *)
(* Strings that the script parses are sequences of one-character strings,  *)
(* so that parseFloat is computed and not assumed.                         *)
(***************************************************************************)
EXTENDS Integers, Sequences, FiniteSets, TLC

VARIABLES
    value,          \* field id -> the field's text (input.val())
    classes,        \* field id -> subset of {"is-valid", "is-invalid"}
    warnings,       \* field id -> the warning <div>s carrying the field's warning id
    btnDisabled,    \* #solve-btn: the disabled property
    btnHtml,        \* #solve-btn: its inner HTML
    timers,         \* pending 30 s timeouts of the submit handler (originalText of each)
    exDisabled,     \* the example button: disabled property
    exText,         \* the example button: text
    pending,        \* example requests in flight (originalText of each call)
    notifications,  \* the notification alerts appended to <body>
    content,        \* #results-content: the cards rendered by displayResults
    resultsShown,   \* #results-container is visible
    welcomeShown,   \* #welcome-message is visible
    plotSrc,        \* #plot-image: src when shown, "" when hidden
    raw,            \* the raw parameter map handed to the validator
    violations,     \* the validator's answer for raw
    lastFn,         \* "displayResults" or "handleSolverError" when that ran last, else ""
    response,       \* the response last handed to displayResults
    xhr,            \* the request last handed to handleSolverError
    example         \* example.parameters when the .done callback ran last, else no key

formVars == <<value, classes, warnings>>
btnVars == <<btnDisabled, btnHtml, timers>>
exVars == <<exDisabled, exText, pending>>
viewVars == <<content, resultsShown, welcomeShown, plotSrc>>
valVars == <<raw, violations>>
callVars == <<lastFn, response, xhr, example>>
vars == <<value, classes, warnings, btnDisabled, btnHtml, timers, exDisabled,
          exText, pending, notifications, content, resultsShown, welcomeShown,
          plotSrc, raw, violations, lastFn, response, xhr, example>>

-----------------------------------------------------------------------------
(* JavaScript values *)


Num(n) == [t |-> "num", v |-> n]
NaN == [t |-> "nan", v |-> 0]
Undefined == [t |-> "undef", v |-> 0]
Null == [t |-> "null", v |-> 0]

isNaN(x) == x.t # "num"

\* x !== undefined
NotUndefined(x) == x.t # "undef"

\* x < y and x > y on numbers: every comparison with NaN is false
Less(x, y) == x.t = "num" /\ y.t = "num" /\ x.v < y.v
Greater(x, y) == x.t = "num" /\ y.t = "num" /\ x.v > y.v

\* truthiness of a number-or-undefined value: 0, NaN and undefined are falsy
Truthy(x) == x.t = "num" /\ x.v # 0

\* `${x}` in a template literal
Show(x) == IF x.t = "num" THEN ToString(x.v)
           ELSE IF x.t = "nan" THEN "NaN"
           ELSE IF x.t = "null" THEN "null" ELSE "undefined"

DigitChars == <<"0", "1", "2", "3", "4", "5", "6", "7", "8", "9">>

IsDigit(c) == \E i \in 1..10 : DigitChars[i] = c

DigitVal(c) == (CHOOSE i \in 1..10 : DigitChars[i] = c) - 1

\* the digits of s from position i on, read as a decimal number after acc
RECURSIVE ReadDigits(_, _, _)
ReadDigits(s, i, acc) ==
    IF i <= Len(s) /\ IsDigit(s[i])
    THEN ReadDigits(s, i + 1, acc * 10 + DigitVal(s[i]))
    ELSE acc

\* parseFloat on a string of sign and digits: the longest numeric prefix, NaN
\* when there is none (the empty string, "undefined", "abc")
parseFloat(s) ==
    LET neg == Len(s) >= 1 /\ s[1] = "-"
        from == IF neg THEN 2 ELSE 1
    IN IF from <= Len(s) /\ IsDigit(s[from])
       THEN Num(IF neg THEN 0 - ReadDigits(s, from, 0) ELSE ReadDigits(s, from, 0))
       ELSE NaN

\* String(n) for an integer n, as a sequence of characters
RECURSIVE NatChars(_)
NatChars(n) == IF n < 10 THEN <<DigitChars[n + 1]>>
               ELSE NatChars(n \div 10) \o <<DigitChars[(n % 10) + 1]>>

NumChars(n) == IF n < 0 THEN <<"-">> \o NatChars(0 - n) ELSE NatChars(n)

\* String(undefined), what parseFloat sees for an attribute that is not declared
UndefinedChars == <<"u", "n", "d", "e", "f", "i", "n", "e", "d">>

-----------------------------------------------------------------------------
(* The number fields of the solver form *)

\* example requests in flight at once
MaxPending == 1
\* alerts on the page at once
MaxNotifications == 1
\* energy levels in a response
MaxLevels == 2
\* bound states in a response
MaxStates == 2

Fields == {"energy", "width", "mass"}

\* the bounds the form declares for each field: energy has both, width a
\* minimum only, mass a maximum only
FieldMin(f) == CASE f = "energy" -> Num(0)
                 [] f = "width" -> Num(1)
                 [] OTHER -> Undefined

FieldMax(f) == CASE f = "energy" -> Num(10)
                 [] f = "mass" -> Num(5)
                 [] OTHER -> Undefined

\* input.attr('min') / input.attr('max'): the attribute's text, or undefined
AttrMin(f) == IF NotUndefined(FieldMin(f)) THEN NumChars(FieldMin(f).v)
              ELSE UndefinedChars

AttrMax(f) == IF NotUndefined(FieldMax(f)) THEN NumChars(FieldMax(f).v)
              ELSE UndefinedChars

\* what a user can type into a number field
TypedNumbers == {-1, 3, 12}
TypedStrings == {<<>>} \cup {NumChars(n) : n \in TypedNumbers}

\* the text the template puts into each field
DefaultText == NumChars(3)

\* keys an example's parameter map can carry: the fields, and one that names no
\* element of the form
Keys == Fields \cup {"n_levels"}

\* numbers a preset can carry: 12 is in range for width and out of range for
\* energy and mass
PresetNumbers == {12}

\* example.parameters: key -> number or null, Undefined for a key the preset
\* lacks
Presets ==
    {p \in [Keys -> {Undefined, Null} \cup {Num(n) : n \in PresetNumbers}] :
        p["n_levels"] = Num(12)}

NoParams == [k \in Keys |-> Undefined]

\* a handler other than the solve callbacks and the example callback ran
NoCall == lastFn' = "" /\ example' = NoParams /\ UNCHANGED <<response, xhr>>

-----------------------------------------------------------------------------
(* addParameterValidation, showParameterWarning, hideParameterWarning *)

ValidationClasses == {"is-valid", "is-invalid"}

\* $(`#${warningId}`).remove(): the id selector matches the first element only
RemoveWarning(ws) == IF ws = <<>> THEN ws ELSE Tail(ws)

WarningMessage(min, max) ==
    "Value out of range: " \o
    (IF NotUndefined(min) /\ NotUndefined(max)
        THEN "should be between " \o Show(min) \o " and " \o Show(max)
     ELSE IF NotUndefined(min) THEN "should be at least " \o Show(min)
     ELSE IF NotUndefined(max) THEN "should be at most " \o Show(max)
     ELSE "")

\* the warning elements of the field after showParameterWarning(input, min, max)
showParameterWarning(ws, min, max) ==
    Append(RemoveWarning(ws), WarningMessage(min, max))

hideParameterWarning(ws) == RemoveWarning(ws)

\* the range check with the test of the maximum left out
OutOfRangeMinOnly(val, min, max) == NotUndefined(min) /\ Less(val, min)

OutOfRange(val, min, max) ==
    (NotUndefined(min) /\ Less(val, min)) \/ (NotUndefined(max) /\ Greater(val, max))

\* the 'input' handler on number field f whose text is s, whose classes are cls
\* and whose warning elements are ws: its classes and warning elements afterwards
OnInput(f, s, cls, ws) ==
    LET min == parseFloat(AttrMin(f))
        max == parseFloat(AttrMax(f))
        val == parseFloat(s)
        kept == cls \ ValidationClasses
    IN IF isNaN(val)
       THEN [classes |-> kept \cup {"is-invalid"}, warnings |-> ws]
       ELSE IF OutOfRange(val, min, max)
       THEN [classes |-> kept \cup {"is-invalid"},
             warnings |-> showParameterWarning(ws, min, max)]
       ELSE [classes |-> kept \cup {"is-valid"},
             warnings |-> hideParameterWarning(ws)]

\* the user edits field f: the browser sets its text and fires 'input'
Input(f, s) ==
    /\ value' = [value EXCEPT ![f] = s]
    /\ LET after == OnInput(f, s, classes[f], warnings[f])
       IN /\ classes' = [classes EXCEPT ![f] = after.classes]
          /\ warnings' = [warnings EXCEPT ![f] = after.warnings]
    /\ NoCall
    /\ UNCHANGED <<btnVars, exVars, notifications, viewVars, valVars>>

-----------------------------------------------------------------------------
(* showNotification *)

AlertClass(type) == IF type = "success" THEN "alert-success"
                    ELSE IF type = "error" THEN "alert-danger" ELSE "alert-info"

\* the alerts in <body> after showNotification(message, type)
showNotification(ns, message, type) ==
    Append(ns, [message |-> message, class |-> AlertClass(type)])

RemoveAt(q, i) == [j \in 1..(Len(q) - 1) |-> IF j < i THEN q[j] ELSE q[j + 1]]

\* the 3 s timeout of a notification fires (or the user closes it)
CloseNotification(i) ==
    /\ i \in 1..Len(notifications)
    /\ notifications' = RemoveAt(notifications, i)
    /\ NoCall
    /\ UNCHANGED <<formVars, btnVars, exVars, viewVars, valVars>>

-----------------------------------------------------------------------------
(* addLoadingStates, addKeyboardShortcuts, clearResults *)

InitialHtml == "Solve"
SpinnerHtml ==
    "<span class=\"spinner-border spinner-border-sm me-2\" role=\"status\"></span>Solving..."

\* jQuery runs a delegated click handler only for an element that is not
\* disabled, and the browser sends no click to a disabled button
ClickDispatched == ~btnDisabled

\* the click handler reading btn.html() only after it has put the spinner in
SubmitHandlerLateCapture ==
    /\ btnDisabled' = TRUE
    /\ btnHtml' = SpinnerHtml
    /\ timers' = Append(timers, SpinnerHtml)

\* the click handler of the submit button
SubmitHandler ==
    LET originalText == btnHtml
    IN /\ btnDisabled' = TRUE
       /\ btnHtml' = SpinnerHtml
       /\ timers' = Append(timers, originalText)

\* a mouse click on the submit button
Click ==
    /\ ClickDispatched
    /\ SubmitHandler
    /\ NoCall
    /\ UNCHANGED <<formVars, exVars, notifications, viewVars, valVars>>

\* the oldest 30 s timeout fires
TimerFire ==
    /\ timers # <<>>
    /\ btnDisabled' = FALSE
    /\ btnHtml' = Head(timers)
    /\ timers' = Tail(timers)
    /\ NoCall
    /\ UNCHANGED <<formVars, exVars, notifications, viewVars, valVars>>

clearResults ==
    /\ resultsShown' = FALSE
    /\ welcomeShown' = TRUE
    /\ UNCHANGED <<content, plotSrc>>

KeyCodes == {13, 27, 65}

\* a keydown event: both document handlers run, in the order they were bound
Keydown(ctrlKey, which) ==
    /\ IF ctrlKey /\ which = 13 /\ ClickDispatched
       THEN SubmitHandler
       ELSE UNCHANGED btnVars
    /\ IF which = 27 THEN clearResults ELSE UNCHANGED viewVars
    /\ NoCall
    /\ UNCHANGED <<formVars, exVars, notifications, valVars>>

-----------------------------------------------------------------------------
(* loadExample *)

ExampleText == "Load Example"

\* the text input.val(value) gives the field: String(value), "" for null
ValText(v) == IF v.t = "num" THEN NumChars(v.v) ELSE <<>>

\* input.val(value) without the trigger('input')
SetFieldNoTrigger(f, v, s, cls, ws) ==
    [value |-> ValText(v), classes |-> cls, warnings |-> ws]

\* input.val(value).trigger('input') on the element with id key: a number
\* field gets the text and is validated, any other key selects nothing
SetField(f, v, s, cls, ws) ==
    LET text == ValText(v)
        after == OnInput(f, text, cls, ws)
    IN [value |-> text, classes |-> after.classes, warnings |-> after.warnings]

\* the state of field f after the forEach over example.parameters
Populate(f, params) ==
    IF NotUndefined(params[f])
    THEN SetField(f, params[f], value[f], classes[f], warnings[f])
    ELSE [value |-> value[f], classes |-> classes[f], warnings |-> warnings[f]]

\* loadExample(solverId, exampleId) up to the request
LoadExample ==
    /\ Len(pending) < MaxPending
    /\ Len(pending) + Len(notifications) < MaxNotifications
    /\ pending' = Append(pending, exText)
    /\ exDisabled' = TRUE
    /\ exText' = "Loading..."
    /\ NoCall
    /\ UNCHANGED <<formVars, btnVars, notifications, viewVars, valVars>>

\* the request answers with an example: .done, then .always
ExampleDone(i, params) ==
    /\ i \in 1..Len(pending)
    /\ LET form == [f \in Fields |-> Populate(f, params)]
       IN /\ value' = [f \in Fields |-> form[f].value]
          /\ classes' = [f \in Fields |-> form[f].classes]
          /\ warnings' = [f \in Fields |-> form[f].warnings]
    /\ notifications' =
          showNotification(notifications, "Example loaded successfully!", "success")
    /\ exDisabled' = FALSE
    /\ exText' = pending[i]
    /\ pending' = RemoveAt(pending, i)
    /\ lastFn' = ""
    /\ example' = params
    /\ UNCHANGED <<btnVars, viewVars, valVars, response, xhr>>

\* the request fails: .fail, then .always
ExampleFail(i) ==
    /\ i \in 1..Len(pending)
    /\ notifications' = showNotification(notifications, "Failed to load example", "error")
    /\ exDisabled' = FALSE
    /\ exText' = pending[i]
    /\ pending' = RemoveAt(pending, i)
    /\ NoCall
    /\ UNCHANGED <<formVars, btnVars, viewVars, valVars>>

-----------------------------------------------------------------------------
(* The response of a solve request *)

Absent == [present |-> FALSE, items |-> <<>>]
List(items) == [present |-> TRUE, items |-> items]

NoTunneling ==
    [present |-> FALSE,
     transmission_probability |-> Undefined, reflection_probability |-> Undefined,
     transmission_coefficient |-> Undefined, reflection_coefficient |-> Undefined]

NoResults ==
    [system_info |-> Absent, bound_states |-> Absent, energy_levels |-> Absent,
     tunneling_results |-> NoTunneling, wave_numbers |-> Absent]

NoResponse == [results |-> NoResults, plot |-> ""]

\* if (x) on an array or an object: true whenever there is one, an empty array
\* included
TruthyObject(x) == x.present

\* if (s) on a string
TruthyString(s) == s # ""

DisplayKey(key) ==
    CASE key = "particle_energy" -> "Particle Energy"
      [] key = "barrier_height" -> "Barrier Height"
      [] key = "well_depth" -> "Well Depth"
      [] key = "k_outside" -> "K Outside"
      [] OTHER -> key

Card(kind, header, rows, bars) ==
    [kind |-> kind, header |-> header, rows |-> rows, bars |-> bars]

\* the pairs of a card built with Object.entries(...).forEach
EntryRows(entries) ==
    [i \in 1..Len(entries) |-> <<DisplayKey(entries[i].key), entries[i].value>>]

createSystemInfoCard(systemInfo) ==
    Card("system_info", <<>>, EntryRows(systemInfo.items), <<>>)

createWaveNumbersCard(waveNumbers) ==
    Card("wave_numbers", <<>>, EntryRows(waveNumbers.items), <<>>)

\* ${state.penetration_depth || 'N/A'}
PenetrationCell(state) ==
    IF Truthy(state.penetration_depth) THEN Show(state.penetration_depth) ELSE "N/A"

BoundStateRow(state) ==
    <<"n = " \o Show(state.state_number), Show(state.z_value), Show(state.energy),
      Show(state.binding_energy), PenetrationCell(state)>>

\* the guard of createBoundStatesTable without its length test
NoBoundStatesNoLength(boundStates) == ~TruthyObject(boundStates)

NoBoundStates(boundStates) == ~TruthyObject(boundStates) \/ Len(boundStates.items) = 0

createBoundStatesTable(boundStates) ==
    IF NoBoundStates(boundStates)
    THEN Card("no_bound_states", <<>>, <<>>, <<>>)
    ELSE Card("bound_states",
              <<"State", "z-value", "Energy", "Binding Energy", "Penetration">>,
              [i \in 1..Len(boundStates.items) |-> BoundStateRow(boundStates.items[i])],
              <<>>)

\* the optional fields of an energy level, in the order of the columns (the
\* turning points are shown after a plus-minus sign, written +- here)
OptionalColumns ==
    <<[field |-> "degeneracy", title |-> "Degeneracy", prefix |-> ""],
      [field |-> "classical_turning_points", title |-> "Turning Points",
       prefix |-> "+-"],
      [field |-> "wavelength", title |-> "Wavelength", prefix |-> ""],
      [field |-> "nodes", title |-> "Nodes", prefix |-> ""]>>

\* level.<field> !== undefined
HasField(level, col) == NotUndefined(level[col.field])

\* the optional columns from the i-th on whose field the level has, in order
RECURSIVE PresentColumns(_, _)
PresentColumns(level, i) ==
    IF i > Len(OptionalColumns) THEN <<>>
    ELSE (IF HasField(level, OptionalColumns[i]) THEN <<OptionalColumns[i]>> ELSE <<>>)
         \o PresentColumns(level, i + 1)

\* the header row: a column for each optional field the first level has
LevelsHeader(energyLevels) ==
    LET cols == IF Len(energyLevels) >= 1 THEN PresentColumns(energyLevels[1], 1)
                ELSE <<>>
    IN <<"n", "Energy">> \o [i \in 1..Len(cols) |-> cols[i].title]

\* a body row: a cell for each optional field the row's own level has
LevelRow(level) ==
    LET cols == PresentColumns(level, 1)
    IN <<Show(level.n), Show(level.energy)>> \o
       [i \in 1..Len(cols) |-> cols[i].prefix \o Show(level[cols[i].field])]

createEnergyLevelsTable(energyLevels) ==
    Card("energy_levels", LevelsHeader(energyLevels.items),
         [i \in 1..Len(energyLevels.items) |-> LevelRow(energyLevels.items[i])], <<>>)

\* the reflection bar drawn with the transmission probability
createTunnelingResultsSameBar(tunnelingResults) ==
    Card("tunneling", <<"Transmission", "Reflection">>,
         <<<<Show(tunnelingResults.transmission_probability) \o "%",
             "Coefficient: " \o Show(tunnelingResults.transmission_coefficient)>>,
           <<Show(tunnelingResults.transmission_probability) \o "%",
             "Coefficient: " \o Show(tunnelingResults.reflection_coefficient)>>>>,
         <<tunnelingResults.transmission_probability,
           tunnelingResults.transmission_probability>>)

\* the two progress bars: the width and the text of each
createTunnelingResults(tunnelingResults) ==
    Card("tunneling", <<"Transmission", "Reflection">>,
         <<<<Show(tunnelingResults.transmission_probability) \o "%",
             "Coefficient: " \o Show(tunnelingResults.transmission_coefficient)>>,
           <<Show(tunnelingResults.reflection_probability) \o "%",
             "Coefficient: " \o Show(tunnelingResults.reflection_coefficient)>>>>,
         <<tunnelingResults.transmission_probability,
           tunnelingResults.reflection_probability>>)

\* the cards of #results-content, in the order displayResults appends them
ResultsHtml(results) ==
    (IF TruthyObject(results.system_info)
        THEN <<createSystemInfoCard(results.system_info)>> ELSE <<>>) \o
    (IF TruthyObject(results.bound_states)
        THEN <<createBoundStatesTable(results.bound_states)>> ELSE <<>>) \o
    (IF TruthyObject(results.energy_levels)
        THEN <<createEnergyLevelsTable(results.energy_levels)>> ELSE <<>>) \o
    (IF TruthyObject(results.tunneling_results)
        THEN <<createTunnelingResults(results.tunneling_results)>> ELSE <<>>) \o
    (IF TruthyObject(results.wave_numbers)
        THEN <<createWaveNumbersCard(results.wave_numbers)>> ELSE <<>>)

\* the success callback of a solve request
displayResults(r) ==
    /\ content' = ResultsHtml(r.results)
    /\ resultsShown' = TRUE
    /\ welcomeShown' = FALSE
    /\ plotSrc' = IF TruthyString(r.plot) THEN r.plot ELSE plotSrc
    /\ lastFn' = "displayResults"
    /\ response' = r
    /\ example' = NoParams
    /\ UNCHANGED <<formVars, btnVars, exVars, notifications, valVars, xhr>>

NoXhr == [status |-> 0, hasJSON |-> FALSE, error |-> ""]

\* handleSolverError looking at the status before the response's error text
ErrorMessageStatusFirst(x) ==
    IF x.status = 0
        THEN "Connection failed. Please check your internet connection."
    ELSE IF x.status >= 500 THEN "Server error. Please try again later."
    ELSE IF x.status = 404 THEN "Solver not found."
    ELSE IF x.hasJSON /\ TruthyString(x.error) THEN x.error
    ELSE "An unknown error occurred"

\* the text handleSolverError shows for xhr
ErrorMessage(x) ==
    IF x.hasJSON /\ TruthyString(x.error) THEN x.error
    ELSE IF x.status = 0
        THEN "Connection failed. Please check your internet connection."
    ELSE IF x.status >= 500 THEN "Server error. Please try again later."
    ELSE IF x.status = 404 THEN "Solver not found."
    ELSE "An unknown error occurred"

\* the failure callback of a solve request
handleSolverError(x) ==
    /\ notifications' = showNotification(notifications, ErrorMessage(x), "error")
    /\ lastFn' = "handleSolverError"
    /\ xhr' = x
    /\ example' = NoParams
    /\ UNCHANGED <<formVars, btnVars, exVars, viewVars, valVars, response>>

-----------------------------------------------------------------------------
(* The solver engine behind the page: the tunneling solver and the validator *)

\* the tunneling result for a transmission probability of T percent
SolveTunneling(T) ==
    [present |-> TRUE,
     transmission_probability |-> Num(T),
     reflection_probability |-> Num(100 - T),
     transmission_coefficient |-> Num(T),
     reflection_coefficient |-> Num(100 - T)]

\* a raw parameter: missing, of the wrong type, or a number
Missing == [t |-> "missing", v |-> 0]
WrongType == [t |-> "str", v |-> 0]
Given(n) == [t |-> "num", v |-> n]

RawNumbers == {-1, 3, 12}
RawMaps == [Fields -> {Missing, WrongType} \cup {Given(n) : n \in RawNumbers}]

\* the ParameterSpec sequence of the solver
FieldOrder == <<"energy", "width", "mass">>
Schema == [i \in 1..Len(FieldOrder) |->
             [name |-> FieldOrder[i], min |-> FieldMin(FieldOrder[i]),
              max |-> FieldMax(FieldOrder[i])]]

\* the reason a raw value fails its ParameterSpec, "" when it does not
Reason(spec, x) ==
    IF x.t = "missing" THEN "missing"
    ELSE IF x.t # "num" THEN "wrong type"
    ELSE IF NotUndefined(spec.min) /\ x.v < spec.min.v THEN "below minimum"
    ELSE IF NotUndefined(spec.max) /\ x.v > spec.max.v THEN "above maximum"
    ELSE ""

\* the violations of rawMap from the i-th ParameterSpec on, in order
RECURSIVE ValidateFrom(_, _)
ValidateFrom(rawMap, i) ==
    IF i > Len(Schema) THEN <<>>
    ELSE LET why == Reason(Schema[i], rawMap[Schema[i].name])
         IN (IF why = "" THEN <<>>
             ELSE <<[field |-> Schema[i].name, reason |-> why]>>)
            \o ValidateFrom(rawMap, i + 1)

\* a validator that stops at the first failing field
validateFailFast(rawMap) ==
    IF ValidateFrom(rawMap, 1) = <<>> THEN <<>> ELSE <<Head(ValidateFrom(rawMap, 1))>>

validate(rawMap) == ValidateFrom(rawMap, 1)

NotValidated == [done |-> FALSE, list |-> <<>>]

-----------------------------------------------------------------------------
(* The form: typing, the submit button, the keyboard, example presets *)

InitForm ==
    /\ value = [f \in Fields |-> DefaultText]
    /\ classes = [f \in Fields |-> {}]
    /\ warnings = [f \in Fields |-> <<>>]
    /\ btnDisabled = FALSE
    /\ btnHtml = InitialHtml
    /\ timers = <<>>
    /\ exDisabled = FALSE
    /\ exText = ExampleText
    /\ pending = <<>>
    /\ notifications = <<>>

InitView ==
    /\ content = <<>>
    /\ resultsShown = FALSE
    /\ welcomeShown = TRUE
    /\ plotSrc = ""
    /\ lastFn = ""
    /\ response = NoResponse
    /\ xhr = NoXhr
    /\ example = NoParams

InitValidator ==
    /\ raw = [f \in Fields |-> Given(3)]
    /\ violations = NotValidated

Init == InitForm /\ InitView /\ InitValidator

NextForm ==
    \/ \E f \in Fields, s \in TypedStrings : Input(f, s)
    \/ Click
    \/ TimerFire
    \/ \E c \in BOOLEAN, k \in KeyCodes : Keydown(c, k)
    \/ LoadExample
    \/ \E i \in 1..Len(pending), p \in Presets : ExampleDone(i, p)
    \/ \E i \in 1..Len(pending) : ExampleFail(i)
    \/ \E i \in 1..Len(notifications) : CloseNotification(i)

SpecForm == Init /\ [][NextForm]_vars

-----------------------------------------------------------------------------
(* The solve callbacks on the page *)

Entry(key, val) == [key |-> key, value |-> val]

BoundState(i, depth) ==
    [state_number |-> Num(i), z_value |-> Num(i), energy |-> Num(0 - i),
     binding_energy |-> Num(i), penetration_depth |-> depth]

Level(i, degeneracy, turning, wavelength, nodes) ==
    [n |-> Num(i), energy |-> Num(i), degeneracy |-> degeneracy,
     classical_turning_points |-> turning, wavelength |-> wavelength, nodes |-> nodes]

WellResponse(states) ==
    [results |-> [NoResults EXCEPT
                    !.system_info = List(<<Entry("well_depth", "5")>>),
                    !.bound_states = List(states)],
     plot |-> "data:image/png;base64,well"]

TunnelingResponse(E, V0, T) ==
    [results |-> [NoResults EXCEPT
                    !.system_info = List(<<Entry("particle_energy", ToString(E)),
                                           Entry("barrier_height", ToString(V0))>>),
                    !.tunneling_results = SolveTunneling(T),
                    !.wave_numbers = List(<<Entry("k_outside", ToString(E))>>)],
     plot |-> "data:image/png;base64,barrier"]

LevelsResponse(levels) ==
    [NoResponse EXCEPT !.results.energy_levels = List(levels)]

BarrierHeight == 2
ParticleEnergies == {1, 2, 3}
TransmissionPercents == {0, 37, 100}

PageResponses ==
    {NoResponse,
     WellResponse(<<>>),
     WellResponse(<<BoundState(1, Num(2))>>),
     LevelsResponse(<<Level(1, Num(1), Undefined, Undefined, Num(0)),
                      Level(2, Num(4), Undefined, Undefined, Num(1))>>)}
    \cup {TunnelingResponse(E, BarrierHeight, T) :
            E \in ParticleEnergies, T \in TransmissionPercents}

Statuses == {0, 400, 404, 500, 503}
ErrorTexts == {"", "Invalid parameters"}
Xhrs == {x \in [status : Statuses, hasJSON : BOOLEAN, error : ErrorTexts] :
            ~x.hasJSON => x.error = ""}

DisplayResults(r) == displayResults(r)

HandleSolverError(x) ==
    /\ Len(notifications) < MaxNotifications
    /\ handleSolverError(x)

InitPage ==
    /\ InitForm
    /\ InitView
    /\ InitValidator

NextPage ==
    \/ \E r \in PageResponses : DisplayResults(r)
    \/ \E x \in Xhrs : HandleSolverError(x)
    \/ \E i \in 1..Len(notifications) : CloseNotification(i)
    \/ \E k \in KeyCodes : Keydown(FALSE, k)

SpecPage == InitPage /\ [][NextPage]_vars

-----------------------------------------------------------------------------
(* The result tables, on every response within the bounds *)

OptionalNumbers(field) ==
    {Undefined, Num(0)} \cup
    (IF field = "degeneracy" THEN {Num(2)}
     ELSE IF field = "nodes" THEN {Num(1)} ELSE {})

Levels(i) ==
    {Level(i, d, t, w, k) :
        d \in OptionalNumbers("degeneracy"),
        t \in OptionalNumbers("classical_turning_points"),
        w \in OptionalNumbers("wavelength"),
        k \in OptionalNumbers("nodes")}

BoundStates(i) == {BoundState(i, d) : d \in {Undefined, Num(0), Num(2)}}

BoundStatesResponse(states) ==
    [NoResponse EXCEPT !.results.bound_states = List(states)]

InitTables ==
    /\ InitForm
    /\ InitValidator
    /\ content = <<>>
    /\ resultsShown = FALSE
    /\ welcomeShown = TRUE
    /\ plotSrc = ""
    /\ lastFn = ""
    /\ response \in {LevelsResponse(<<>>), BoundStatesResponse(<<>>)}
    /\ xhr = NoXhr
    /\ example = NoParams

\* the request has not been answered yet
Unanswered == lastFn = "" /\ content = <<>>

\* the solver puts one more energy level into the response it will send
AddLevel ==
    /\ Unanswered
    /\ response.results.energy_levels.present
    /\ Len(response.results.energy_levels.items) < MaxLevels
    /\ \E l \in Levels(Len(response.results.energy_levels.items) + 1) :
          response' = LevelsResponse(Append(response.results.energy_levels.items, l))
    /\ UNCHANGED <<formVars, btnVars, exVars, notifications, viewVars, valVars,
                   lastFn, xhr, example>>

\* the solver puts one more bound state into the response it will send
AddBoundState ==
    /\ Unanswered
    /\ response.results.bound_states.present
    /\ Len(response.results.bound_states.items) < MaxStates
    /\ \E b \in BoundStates(Len(response.results.bound_states.items) + 1) :
          response' = BoundStatesResponse(Append(response.results.bound_states.items, b))
    /\ UNCHANGED <<formVars, btnVars, exVars, notifications, viewVars, valVars,
                   lastFn, xhr, example>>

\* the request answers once, with the response the solver has built
Answer ==
    /\ Unanswered
    /\ displayResults(response)

NextTables ==
    \/ AddLevel
    \/ AddBoundState
    \/ Answer
    \/ \E k \in KeyCodes : Keydown(FALSE, k)

SpecTables == InitTables /\ [][NextTables]_vars

-----------------------------------------------------------------------------
(* The validator, on every raw parameter map within the bounds *)

InitValidate ==
    /\ InitForm
    /\ InitView
    /\ raw \in RawMaps
    /\ violations = NotValidated

Validate ==
    /\ ~violations.done
    /\ violations' = [done |-> TRUE, list |-> validate(raw)]
    /\ UNCHANGED <<formVars, btnVars, exVars, notifications, viewVars, raw, callVars>>

NextValidate == Validate

SpecValidate == InitValidate /\ [][NextValidate]_vars

-----------------------------------------------------------------------------
(* Properties of the form *)

\* the number n lies outside the bounds field f declares
Outside(f, n) ==
    \/ NotUndefined(FieldMin(f)) /\ n < FieldMin(f).v
    \/ NotUndefined(FieldMax(f)) /\ n > FieldMax(f).v

\* the text of field f is not a number, or lies outside the declared bounds
BadText(f) ==
    LET v == parseFloat(value[f])
    IN v.t # "num" \/ Outside(f, v.v)

\* field f has had an input event
Touched(f) == classes[f] # {} \/ value[f] # DefaultText

\* C8: after an input event a number field carries exactly one of is-valid and
\* is-invalid, is-invalid exactly when its text is not a number or lies outside
\* a declared bound; a field never has two warning elements, and has none
\* while it is marked valid.
C8_ExactlyOneMark ==
    \A f \in Fields :
        /\ Len(warnings[f]) <= 1
        /\ Touched(f) =>
              /\ classes[f] \in {{"is-valid"}, {"is-invalid"}}
              /\ (classes[f] = {"is-invalid"}) <=> BadText(f)
              /\ (classes[f] = {"is-valid"}) => (warnings[f] = <<>>)

\* a field is out of range with its warning shown while another is valid
C8_Witness ==
    /\ classes["energy"] = {"is-invalid"}
    /\ value["energy"] = NumChars(12)
    /\ Len(warnings["energy"]) = 1
    /\ classes["width"] = {"is-valid"}
    /\ value["mass"] = <<>>
    /\ classes["mass"] = {"is-invalid"}

\* the warning text that names the bounds field f declares, and no other
DeclaredBoundsMessage(f) ==
    "Value out of range: " \o
    (IF NotUndefined(FieldMin(f)) /\ NotUndefined(FieldMax(f))
        THEN "should be between " \o ToString(FieldMin(f).v) \o " and "
             \o ToString(FieldMax(f).v)
     ELSE IF NotUndefined(FieldMin(f))
        THEN "should be at least " \o ToString(FieldMin(f).v)
     ELSE "should be at most " \o ToString(FieldMax(f).v))

\* C9: the out-of-range warning of a field names only the bounds the field
\* declares: between min and max, at least min, or at most max.
C9_WarningNamesDeclaredBounds ==
    \A f \in Fields :
        \A i \in 1..Len(warnings[f]) : warnings[f][i] = DeclaredBoundsMessage(f)

\* C5: after an example has loaded, every number field its parameters name
\* holds the preset's value and carries the mark that value deserves: is-invalid
\* exactly when the value is no number or lies outside the field's declared
\* bounds.
C5_PresetValidated ==
    \A f \in Fields :
        NotUndefined(example[f]) =>
            /\ parseFloat(value[f]) = (IF example[f].t = "num" THEN example[f] ELSE NaN)
            /\ classes[f] =
                  IF example[f].t # "num" \/ Outside(f, example[f].v)
                  THEN {"is-invalid"} ELSE {"is-valid"}

\* a preset with a value out of range and a value in range has loaded
C5_Witness ==
    /\ example["energy"] = Num(12)
    /\ example["width"] = Num(12)
    /\ example["mass"] = Undefined
    /\ classes["energy"] = {"is-invalid"}
    /\ Len(warnings["energy"]) = 1
    /\ classes["width"] = {"is-valid"}
    /\ notifications # <<>>

\* C7: while a fallback timer of the submit button is pending the button is
\* disabled and shows the spinner; once every timer has fired it is enabled
\* and shows the content it had before the first activation.
C7_ButtonRestored ==
    /\ timers # <<>> => btnDisabled /\ btnHtml = SpinnerHtml
    /\ timers = <<>> => ~btnDisabled /\ btnHtml = InitialHtml

\* the button has been activated and its timer has not fired yet
C7_Witness ==
    /\ btnDisabled
    /\ btnHtml = SpinnerHtml
    /\ Len(timers) = 1
    /\ Head(timers) = InitialHtml

-----------------------------------------------------------------------------
(* Properties of the solve callbacks *)

HasCard(kind) == \E i \in 1..Len(content) : content[i].kind = kind

EmptyBoundStates(r) ==
    r.results.bound_states.present /\ r.results.bound_states.items = <<>>

\* C3: displayResults on a response whose bound_states is empty shows the
\* results container with the notice in place of the table, hides the welcome
\* message and adds no notification.
C3_EmptyBoundStatesShown ==
    [][(lastFn' = "displayResults" /\ EmptyBoundStates(response')) =>
          /\ resultsShown' /\ ~welcomeShown'
          /\ \E i \in 1..Len(content') : content'[i].kind = "no_bound_states"
          /\ \A i \in 1..Len(content') : content'[i].kind # "bound_states"
          /\ notifications' = notifications]_vars

\* a response with an empty bound_states has been displayed
C3_Witness ==
    /\ lastFn = "displayResults"
    /\ EmptyBoundStates(response)
    /\ HasCard("no_bound_states")
    /\ resultsShown
    /\ ~welcomeShown

\* the text the claim gives for a failed request
ClaimedErrorText(x) ==
    CASE x.hasJSON /\ x.error # "" -> x.error
      [] ~(x.hasJSON /\ x.error # "") /\ x.status = 0 ->
            "Connection failed. Please check your internet connection."
      [] ~(x.hasJSON /\ x.error # "") /\ x.status = 404 -> "Solver not found."
      [] ~(x.hasJSON /\ x.error # "") /\ x.status >= 500 ->
            "Server error. Please try again later."
      [] OTHER -> "An unknown error occurred"

\* C6: handleSolverError adds exactly one notification, an error alert with the
\* server's error text when the response carries one and else the text chosen
\* by the status, and leaves the results area as it was.
C6_OneErrorNotification ==
    [][lastFn' = "handleSolverError" =>
          /\ notifications' =
                Append(notifications,
                       [message |-> ClaimedErrorText(xhr'), class |-> "alert-danger"])
          /\ UNCHANGED viewVars]_vars

\* an unknown solver (404, no error text) has been reported while earlier
\* results are on the page
C6_Witness ==
    /\ lastFn = "handleSolverError"
    /\ xhr.status = 404
    /\ ~xhr.hasJSON
    /\ notifications # <<>>
    /\ notifications[Len(notifications)].message = "Solver not found."
    /\ resultsShown

-----------------------------------------------------------------------------
(* Properties of the result tables *)

\* the card of the given kind on the page
CardOf(kind) == content[CHOOSE i \in 1..Len(content) : content[i].kind = kind]

\* the cell of row that shows the optional field of column j, "" when the row
\* has no cell for it
OptionalCell(level, row, j) ==
    LET before == Cardinality({k \in 1..(j - 1) :
                                  NotUndefined(level[OptionalColumns[k].field])})
    IN IF NotUndefined(level[OptionalColumns[j].field]) /\ 2 + before + 1 <= Len(row)
       THEN row[2 + before + 1] ELSE ""

\* C4: in the displayed tables a present optional field is shown with its
\* value, 0 included, and only an absent one is omitted or shown as N/A.
C4_ZeroIsNotAbsent ==
    lastFn = "displayResults" =>
        /\ HasCard("bound_states") =>
              \A i \in 1..Len(response.results.bound_states.items) :
                 LET state == response.results.bound_states.items[i]
                     cell == CardOf("bound_states").rows[i][5]
                 IN IF NotUndefined(state.penetration_depth)
                    THEN cell = ToString(state.penetration_depth.v)
                    ELSE cell = "N/A"
        /\ HasCard("energy_levels") =>
              \A i \in 1..Len(response.results.energy_levels.items) :
                 \A j \in 1..Len(OptionalColumns) :
                    LET level == response.results.energy_levels.items[i]
                        row == CardOf("energy_levels").rows[i]
                        field == OptionalColumns[j].field
                    IN IF NotUndefined(level[field])
                       THEN OptionalCell(level, row, j) =
                               OptionalColumns[j].prefix \o ToString(level[field].v)
                       ELSE Len(row) = 2 + Cardinality({k \in 1..Len(OptionalColumns) :
                                  NotUndefined(level[OptionalColumns[k].field])})

\* C10: every body row of the energy-levels table has as many cells as the
\* header has columns.
C10_RowsMatchHeader ==
    \A i \in 1..Len(content) :
        content[i].kind = "energy_levels" =>
            \A j \in 1..Len(content[i].rows) :
                Len(content[i].rows[j]) = Len(content[i].header)

-----------------------------------------------------------------------------
(* Properties of the validator *)

\* the raw value x breaks the ParameterSpec of field f
Fails(f, x) == x.t # "num" \/ Outside(f, x.v)

FailingFields == {f \in Fields : Fails(f, raw[f])}

\* C2: the validator reports one violation for every failing field, all
\* together: a request with one field missing and one out of range gets
\* exactly two.
C2_AllViolationsCollected ==
    violations.done =>
        /\ Len(violations.list) = Cardinality(FailingFields)
        /\ \A f \in FailingFields :
              \E i \in 1..Len(violations.list) : violations.list[i].field = f
        /\ \A i \in 1..Len(violations.list) : violations.list[i].field \in FailingFields

\* a request with energy missing, mass out of range and width in range has
\* been validated, with two violations
C2_Witness ==
    /\ violations.done
    /\ raw = [energy |-> Missing, width |-> Given(3), mass |-> Given(12)]
    /\ Len(violations.list) = 2
    /\ violations.list[1] = [field |-> "energy", reason |-> "missing"]
    /\ violations.list[2] = [field |-> "mass", reason |-> "above maximum"]

====
